---- MODULE Spec2Model ----
(***************************************************************************)
(* Adaptive cognitive trait and misconception modelling engine.            *)
(*                                                                         *)
(* Six specifications share this module:                                   *)
(*   Spec         - the personal misconception tracker and the novelty /   *)
(*                  promotion pipeline (misconception_extraction.py), run  *)
(*                  by request slots whose awaits on the document store    *)
(*                  are the points where other requests interleave;        *)
(*   SpecTracker  - the tracker calls of one learner run by two slots;     *)
(*   SpecPromote  - the promotion pipeline run by two slots;               *)
(*   SpecTraits   - the trait state updater (cognitive_trait_update.py), a *)
(*                  synchronous computation applied to a persisted vector; *)
(*   SpecEvidence - the updater called on one response to one question;    *)
(*   SpecSubmit   - the quiz submission handler (pdf_upload.py).           *)
(***************************************************************************)
EXTENDS Integers, Sequences, FiniteSets, TLC

VARIABLES users, globalKB, pc, loc, ret, calls,
          traits, diagnostics, updates, evidence_log, quiz_responses,
          quiz_questions,
          req, topic_traits, started, session

vars == <<users, globalKB, pc, loc, ret, calls,
          traits, diagnostics, updates, evidence_log, quiz_responses,
          quiz_questions,
          req, topic_traits, started, session>>

miscVars == <<users, globalKB, pc, loc, ret, calls>>

\* the persisted vector, the diagnostics and evidence log returned by the last
\* update_traits call, the number of calls, and the responses and questions
\* the last call was given
traitVars == <<traits, diagnostics, updates, evidence_log, quiz_responses,
               quiz_questions>>

\* the quiz submission requests in flight, the learner's per-topic profiles,
\* the number of requests started and the quiz fields of the session document
handlerVars == <<req, topic_traits, started, session>>

(***************************************************************************)
(* Bounds of the model.                                                    *)
(***************************************************************************)
\* number of calls of the tracker / pipeline functions started in one run
MaxCalls == 5

(***************************************************************************)
(* Finite input domains.                                                   *)
(***************************************************************************)
\* learners that have a document in the users collection
Users == {"u1", "u2", "u3"}

\* a learner id with no document in the users collection
MissingUser == "u0"

Topics == {"t1", "t2"}

Domains == {"d1", "d2"}

\* request slots (concurrently running coroutines of the server)
Procs == {1}

\* misconception texts, as sequences of characters
TxtLower == <<"a", "b">>

TxtUpper == <<"A", "B">>

TxtSub == <<"b">>

TxtDot == <<"a", ".">>

Texts == {TxtLower, TxtUpper, TxtSub, TxtDot}

\* a misconception_id that no record carries
NoSuchId == 0

\* the value of an unset Optional[datetime]
NoDate == 0

(***************************************************************************)
(* Text functions.                                                         *)
(***************************************************************************)
\* str.lower() on one character
LowerChar(c) ==
    CASE c = "A" -> "a"
      [] c = "B" -> "b"
      [] OTHER -> c

\* str.lower()
Lower(s) == [i \in DOMAIN s |-> LowerChar(s[i])]

\* one pattern character against one input character, option "i"
RegexCharMatch(rc, c) == rc = "." \/ LowerChar(rc) = LowerChar(c)

\* $regexMatch {input, regex, options: "i"}: unanchored search
RegexMatch(input, regex) ==
    \E off \in 0..(Len(input) - Len(regex)) :
        \A i \in 1..Len(regex) : RegexCharMatch(regex[i], input[off + i])

(***************************************************************************)
(* Program constants.                                                      *)
(***************************************************************************)
\* update_misconception_resolution_status(threshold = 3)
ResolutionThreshold == 3

\* check_and_promote_misconception_to_global(frequency_threshold = 3)
FrequencyThreshold == 3

\* similarity_threshold = 0.85, in units of 1/200
SimilarityThreshold == 170

\* the similarity 1.0, in units of 1/200
SimOne == 200

(***************************************************************************)
(* The document store: the users collection.                               *)
(*   users[u][t] is the array personal_misconceptions.<t> of learner u.    *)
(*   Each element carries the persisted fields the engine reads or writes, *)
(*   and one history field, consec: the number of correct answers applied  *)
(*   to the record since its creation, or -1 once a re-detection or an     *)
(*   incorrect answer has been applied to it.                              *)
(***************************************************************************)
\* a first detection that is not counted
NewMisconceptionUncounted(id, text, now) ==
    [misconception_id |-> id,
     misconception_text |-> text,
     frequency |-> 0,
     last_occurrence |-> now,
     resolved |-> FALSE,
     resolution_date |-> NoDate,
     correct_streak |-> 0,
     consec |-> 0]

\* PersonalMisconception as built for a first detection
NewMisconception(id, text, now) ==
    [misconception_id |-> id,
     misconception_text |-> text,
     frequency |-> 1,
     last_occurrence |-> now,
     resolved |-> FALSE,
     resolution_date |-> NoDate,
     correct_streak |-> 0,
     consec |-> 0]

\* index of the first element of arr that satisfies Test, 0 if none
FirstIndex(arr, Test(_)) ==
    IF \E i \in 1..Len(arr) : Test(arr[i])
    THEN CHOOSE i \in 1..Len(arr) :
             Test(arr[i]) /\ \A j \in 1..(i - 1) : ~Test(arr[j])
    ELSE 0

\* the loop that looks for an existing record with the same lowered text
FindExisting(arr, text) ==
    LET Same(mc) == Lower(mc.misconception_text) = Lower(text)
    IN FirstIndex(arr, Same)

\* the positional operator $: first array element with the given id
PositionalIndex(arr, id) ==
    LET HasId(mc) == mc.misconception_id = id
    IN FirstIndex(arr, HasId)

\* update_one / find_one_and_update on one array element of one learner
UpdateElement(db, u, t, id, Change(_)) ==
    LET i == PositionalIndex(db[u][t], id)
    IN IF i = 0 THEN db
       ELSE [db EXCEPT ![u][t][i] = Change(db[u][t][i])]

\* a re-detection that forgets to reopen the record
RedetectKeepsResolved(mc, now) ==
    [mc EXCEPT !.frequency = @ + 1,
               !.last_occurrence = now,
               !.correct_streak = 0,
               !.consec = -1]

\* the $inc / $set of a re-detection
RedetectChange(mc, now) ==
    [mc EXCEPT !.frequency = @ + 1,
               !.last_occurrence = now,
               !.resolved = FALSE,
               !.correct_streak = 0,
               !.consec = -1]

\* the $inc of a correct answer
StreakIncChange(mc) ==
    [mc EXCEPT !.correct_streak = @ + 1,
               !.consec = IF @ < 0 THEN @ ELSE @ + 1]

\* the $set that marks a record resolved
ResolveChange(mc, now) ==
    [mc EXCEPT !.resolved = TRUE, !.resolution_date = now]

\* an incorrect answer that resets the streak and forgets the resolved flag
StreakResetKeepsResolved(mc) ==
    [mc EXCEPT !.correct_streak = 0, !.consec = -1]

\* the $set of an incorrect answer
StreakResetChange(mc) ==
    [mc EXCEPT !.correct_streak = 0, !.resolved = FALSE, !.consec = -1]

(***************************************************************************)
(* The shared knowledge base: the collection "misconceptions".             *)
(***************************************************************************)
\* embedder.encode(text): the position of a text in embedding space
Embed(text) ==
    CASE text = TxtLower -> 0
      [] text = TxtUpper -> 10
      [] text = TxtDot -> 70
      [] OTHER -> 100

\* the distance the collection reports between two embeddings, in 1/100
Distance(e1, e2) == IF e1 >= e2 THEN e1 - e2 ELSE e2 - e1

\* a record loaded by seed_from_csv (no frequency, no novelty score)
SeedRecord ==
    [document |-> TxtSub, embedding |-> Embed(TxtSub), subject |-> "d1",
     topic |-> "t1", frequency |-> 0, novelty_score |-> 0,
     source |-> "csv_seed"]

\* collection.query(where = {"subject": domain}): distances of the hits
QueryDistances(kb, embedding, domain) ==
    {Distance(embedding, kb[i].embedding) :
        i \in {j \in 1..Len(kb) : kb[j].subject = domain}}

\* max_similarity = 1.0 - min_distance / 2.0, in units of 1/200; 0.0 if no hit
MaxSimilarity(kb, text, domain) ==
    LET ds == QueryDistances(kb, Embed(text), domain)
    IN IF ds = {} THEN 0
       ELSE SimOne - (CHOOSE d \in ds : \A e \in ds : d <= e)

\* a novelty gate that lets a similarity equal to the threshold pass
TooSimilarStrict(sim) == sim > SimilarityThreshold

\* the novelty gate: too similar to existing knowledge
TooSimilar(sim) == sim >= SimilarityThreshold

\* has_misconception of one learner document of the aggregation pipeline
HasMisconception(doc, text) ==
    \E t \in DOMAIN doc :
        \E i \in 1..Len(doc[t]) : RegexMatch(doc[t][i].misconception_text, text)

\* the aggregation pipeline: $project, $match, $count
StudentCount(db, text) ==
    Cardinality({u \in DOMAIN db : HasMisconception(db[u], text)})

\* a frequency gate that is one learner short
BelowFrequencyOffByOne(count) == count < FrequencyThreshold - 1

\* the frequency gate
BelowFrequency(count) == count < FrequencyThreshold

\* a record that stores the similarity where the novelty belongs
PromotedRecordSimilarityAsNovelty(text, topic, domain, count, sim) ==
    [document |-> text, embedding |-> Embed(text), subject |-> domain,
     topic |-> topic, frequency |-> count, novelty_score |-> sim,
     source |-> "student_discovered"]

\* the metadata and document of collection.add
PromotedRecord(text, topic, domain, count, sim) ==
    [document |-> text, embedding |-> Embed(text), subject |-> domain,
     topic |-> topic, frequency |-> count, novelty_score |-> SimOne - sim,
     source |-> "student_discovered"]

(***************************************************************************)
(* The trait state updater.  Trait values, scores, weights and gains are   *)
(* exact rationals <<numerator, denominator>> in lowest terms with a       *)
(* positive denominator.                                                   *)
(***************************************************************************)
RECURSIVE GCD(_, _)
GCD(a, b) == IF b = 0 THEN a ELSE GCD(b, a % b)

Abs(n) == IF n < 0 THEN -n ELSE n

\* the rational n / d in lowest terms
Q(n, d) == LET g == GCD(Abs(n), d) IN <<n \div g, d \div g>>

Zero == Q(0, 1)

One == Q(1, 1)

\* x + y
RAdd(x, y) ==
    LET g == GCD(x[2], y[2])
        l == (x[2] \div g) * y[2]
    IN Q(x[1] * (l \div x[2]) + y[1] * (l \div y[2]), l)

\* x - y
RSub(x, y) == RAdd(x, <<-y[1], y[2]>>)

\* x * y
RMul(x, y) ==
    LET g1 == GCD(Abs(x[1]), y[2])
        g2 == GCD(Abs(y[1]), x[2])
    IN Q((x[1] \div g1) * (y[1] \div g2), (x[2] \div g2) * (y[2] \div g1))

\* x / y, for y > 0
RDiv(x, y) == RMul(x, <<y[2], y[1]>>)

\* x <= y
RLeq(x, y) == RSub(x, y)[1] <= 0

\* x < y
RLess(x, y) == RSub(x, y)[1] < 0

\* abs(x)
RAbs(x) == <<Abs(x[1]), x[2]>>

\* a clamp that forgets the lower bound
ClampUpperOnly(x) == IF RLess(One, x) THEN One ELSE x

\* max(0.0, min(1.0, x))
Clamp01(x) ==
    LET m == IF RLess(One, x) THEN One ELSE x
    IN IF RLess(m, Zero) THEN Zero ELSE m

\* the keys of the learner's trait dict: the eight traits of the profile and
\* one key the service has no gain for
KnownTraits ==
    {"precision", "confidence", "analytical_depth", "curiosity",
     "metacognition", "cognitive_flexibility", "pattern_recognition",
     "attention_consistency"}

UnknownTrait == "creativity"

TraitKeys == KnownTraits \cup {UnknownTrait}

\* one learning rate for every trait
UniformGain(trait) == Q(20, 100)

\* trait_sensitivity.get(trait, default_kalman_gain)
KalmanGain(trait) ==
    CASE trait = "curiosity" -> Q(35, 100)
      [] trait = "confidence" -> Q(30, 100)
      [] trait = "metacognition" -> Q(25, 100)
      [] trait = "cognitive_flexibility" -> Q(25, 100)
      [] trait = "analytical_depth" -> Q(20, 100)
      [] trait = "pattern_recognition" -> Q(20, 100)
      [] trait = "precision" -> Q(15, 100)
      [] trait = "attention_consistency" -> Q(18, 100)
      [] OTHER -> Q(20, 100)

\* _calculate_calibration_score: 1 - |confidence - accuracy|
CalibrationScore(confidence, is_correct) ==
    LET accuracy == IF is_correct THEN One ELSE Zero
    IN RSub(One, RAbs(RSub(confidence, accuracy)))

\* reasoning texts: none, one of three words, one of twenty words
NoText == [words |-> 0, rich |-> FALSE]

ShortText == [words |-> 3, rich |-> FALSE]

RichText == [words |-> 20, rich |-> TRUE]

\* the additive, individually capped sub-scores of the scoring strategy for
\* the twenty-word text, before the final clamp
StrategyScore(text, trait) ==
    CASE trait = "metacognition" -> Q(115, 100)
      [] trait \in {"analytical_depth", "cognitive_flexibility"} -> Q(70, 100)
      [] trait = "precision" -> Q(55, 100)
      [] trait = "curiosity" -> Zero
      [] trait = "pattern_recognition" -> Q(40, 100)
      [] OTHER -> Q(60, 100)

\* _score_reasoning_quality: 0.3 under five words, else the clamped score
ReasoningScore(text, trait) ==
    IF text.words < 5 THEN Q(3, 10) ELSE Clamp01(StrategyScore(text, trait))

\* one calibration weight for every trait
CalibrationWeightUniform(trait) == Q(8, 10)

\* weight of the calibration term
CalibrationWeight(trait) ==
    IF trait \in {"confidence", "metacognition", "precision"}
    THEN Q(12, 10) ELSE Q(8, 10)

\* a reasoning weight that is the same for every trait
ReasoningWeightUniform(trait) == Q(5, 10)

\* weight of the reasoning term
ReasoningWeight(trait) ==
    IF trait \in {"analytical_depth", "metacognition", "curiosity"}
    THEN Q(15, 10) ELSE Q(5, 10)

\* no misconception attached to a response
NoMisconception == [present |-> FALSE, confidence |-> Zero, affected_traits |-> {}]

\* a penalty test that forgets the correctness of the response
PenalisedWhateverCorrectness(response, trait) ==
    /\ response.misconception_addressed.present
    /\ trait \in response.misconception_addressed.affected_traits

\* the penalty applies: a misconception is attached, the response is
\* incorrect and the trait is among the affected traits
Penalised(response, trait) ==
    /\ response.misconception_addressed.present
    /\ ~response.is_correct
    /\ trait \in response.misconception_addressed.affected_traits

\* penalty = misconception_confidence * 0.15 * evidence_weight
MisconceptionPenalty(misconception, evidence_weight) ==
    RMul(RMul(misconception.confidence, Q(15, 100)), evidence_weight)

\* _gather_evidence: the evidence sample of one response for one trait
GatherEvidence(response, trait) ==
    LET correctness == IF response.is_correct THEN One ELSE Zero
        calibration == CalibrationScore(response.confidence, response.is_correct)
        hasText == response.reasoning.words > 0
        reasoning == IF hasText THEN ReasoningScore(response.reasoning, trait)
                     ELSE Zero
        score2 == RAdd(correctness, RMul(calibration, CalibrationWeight(trait)))
        weight2 == RAdd(One, CalibrationWeight(trait))
        score3 == IF hasText
                  THEN RAdd(score2, RMul(reasoning, ReasoningWeight(trait)))
                  ELSE score2
        weight3 == IF hasText THEN RAdd(weight2, ReasoningWeight(trait)) ELSE weight2
        penalty == MisconceptionPenalty(response.misconception_addressed, weight3)
        score4 == IF Penalised(response, trait) THEN RSub(score3, penalty)
                  ELSE score3
        final == IF RLess(Zero, weight3) THEN RDiv(score4, weight3) ELSE Q(1, 2)
    IN [score |-> Clamp01(final), weight |-> weight3,
        components |-> [correctness |-> correctness,
                        calibration |-> calibration,
                        reasoning |-> [supplied |-> hasText, score |-> reasoning]]]

\* an inference that adds the default traits to whatever it inferred
InferTraitsDefaultAdded(question) ==
    LET calc == IF question.requires_calculation
                THEN {"precision", "analytical_depth"} ELSE {}
        hard == IF question.difficulty = "hard"
                THEN {"cognitive_flexibility", "analytical_depth"} ELSE {}
        misc == IF question.misconception_target THEN {"pattern_recognition"} ELSE {}
        set == calc \cup hard \cup misc \cup {"analytical_depth", "precision"}
    IN CHOOSE seq \in [1..Cardinality(set) -> set] :
           \A i, j \in 1..Cardinality(set) : i # j => seq[i] # seq[j]

\* _infer_traits_from_question, as a list without duplicates
InferTraits(question) ==
    LET calc == IF question.requires_calculation
                THEN {"precision", "analytical_depth"} ELSE {}
        hard == IF question.difficulty = "hard"
                THEN {"cognitive_flexibility", "analytical_depth"} ELSE {}
        misc == IF question.misconception_target THEN {"pattern_recognition"} ELSE {}
        all == calc \cup hard \cup misc
        set == IF all = {} THEN {"analytical_depth", "precision"} ELSE all
    IN CHOOSE seq \in [1..Cardinality(set) -> set] :
           \A i, j \in 1..Cardinality(set) : i # j => seq[i] # seq[j]

\* a lookup that falls back on the first question
FindQuestionOrFirst(number, questions) ==
    IF \E i \in 1..Len(questions) : questions[i].question_number = number
    THEN CHOOSE i \in 1..Len(questions) :
             /\ questions[i].question_number = number
             /\ \A j \in 1..(i - 1) : questions[j].question_number # number
    ELSE IF questions = <<>> THEN 0 ELSE 1

\* _find_question: index of the first question with the number, 0 if none
FindQuestion(number, questions) ==
    LET HasNumber(q) == q.question_number = number
    IN FirstIndex(questions, HasNumber)

\* the Q-matrix row used for a question: its tags, or the inferred traits
TraitsTargeted(question) ==
    IF question.traits_targeted # <<>> THEN question.traits_targeted
    ELSE InferTraits(question)

\* an accumulator that takes every matched response as evidence for every
\* trait, whatever the question's tags
RECURSIVE AccumulateIgnoringTags(_, _, _, _)
AccumulateIgnoringTags(trait, responses, questions, n) ==
    IF n = 0 THEN [observations |-> 0, total_weight |-> Zero, weighted_sum |-> Zero]
    ELSE LET acc == AccumulateIgnoringTags(trait, responses, questions, n - 1)
             response == responses[n]
             qi == FindQuestion(response.question_number, questions)
             ev == GatherEvidence(response, trait)
         IN IF qi = 0 THEN acc
            ELSE [observations |-> acc.observations + 1,
                  total_weight |-> RAdd(acc.total_weight, ev.weight),
                  weighted_sum |-> RAdd(acc.weighted_sum,
                                        RMul(ev.score, ev.weight))]

\* the evidence accumulator of one trait: observations, total_weight and
\* weighted_sum after the loop over the first n responses
RECURSIVE Accumulate(_, _, _, _)
Accumulate(trait, responses, questions, n) ==
    IF n = 0 THEN [observations |-> 0, total_weight |-> Zero, weighted_sum |-> Zero]
    ELSE LET acc == Accumulate(trait, responses, questions, n - 1)
             response == responses[n]
             qi == FindQuestion(response.question_number, questions)
             tags == IF qi = 0 THEN <<>> ELSE TraitsTargeted(questions[qi])
             times == Cardinality({k \in 1..Len(tags) : tags[k] = trait})
             ev == GatherEvidence(response, trait)
             w == RMul(Q(times, 1), ev.weight)
         IN IF times = 0 THEN acc
            ELSE [observations |-> acc.observations + times,
                  total_weight |-> RAdd(acc.total_weight, w),
                  weighted_sum |-> RAdd(acc.weighted_sum, RMul(ev.score, w))]

\* the evidence_log entries of one response: one for each of the first k
\* traits of the question's Q-matrix row that is a key of the vector
RECURSIVE ResponseLog(_, _, _, _)
ResponseLog(response, traits_targeted, keys, k) ==
    IF k = 0 THEN <<>>
    ELSE LET log == ResponseLog(response, traits_targeted, keys, k - 1)
             trait == traits_targeted[k]
             evidence == GatherEvidence(response, trait)
         IN IF trait \notin keys THEN log
            ELSE Append(log, [question_number |-> response.question_number,
                              trait |-> trait,
                              evidence_score |-> evidence.score,
                              evidence_weight |-> evidence.weight,
                              components |-> evidence.components,
                              is_correct |-> response.is_correct,
                              confidence |-> response.confidence])

\* evidence_log after the loop over the first n responses
RECURSIVE EvidenceLog(_, _, _, _)
EvidenceLog(responses, questions, keys, n) ==
    IF n = 0 THEN <<>>
    ELSE LET log == EvidenceLog(responses, questions, keys, n - 1)
             response == responses[n]
             qi == FindQuestion(response.question_number, questions)
         IN IF qi = 0 THEN log
            ELSE log \o ResponseLog(response, TraitsTargeted(questions[qi]), keys,
                                    Len(TraitsTargeted(questions[qi])))

\* an innovation with the operands exchanged
InnovationReversed(avg_performance, current_value) ==
    RSub(current_value, avg_performance)

\* innovation = avg_performance - current_value
Innovation(avg_performance, current_value) ==
    RSub(avg_performance, current_value)

\* the diagnostics entry and new value of one trait
UpdateOneTrait(trait, current_value, acc) ==
    IF acc.total_weight = Zero
    THEN [old_value |-> current_value, new_value |-> current_value,
          change |-> Zero, evidence_count |-> 0,
          avg_performance |-> Zero, kalman_gain |-> Zero,
          method |-> "no_evidence"]
    ELSE LET avg == RDiv(acc.weighted_sum, acc.total_weight)
             gain == KalmanGain(trait)
             new == Clamp01(RAdd(current_value,
                                 RMul(gain, Innovation(avg, current_value))))
         IN [old_value |-> current_value, new_value |-> new,
             change |-> RSub(new, current_value),
             evidence_count |-> acc.observations,
             avg_performance |-> avg, kalman_gain |-> gain,
             method |-> "cdm_bkt_kalman"]

\* update_traits: the diagnostics of every key of current_traits
UpdateTraits(current_traits, responses, questions) ==
    [trait \in DOMAIN current_traits |->
        UpdateOneTrait(trait, current_traits[trait],
                       Accumulate(trait, responses, questions, Len(responses)))]

\* the vector of a new learner: every trait at 0.5
DefaultTraits == [trait \in TraitKeys |-> Q(1, 2)]

\* diagnostics before any update
NoDiagnostics ==
    [trait \in TraitKeys |->
        [old_value |-> Q(1, 2), new_value |-> Q(1, 2), change |-> Zero,
         evidence_count |-> 0, avg_performance |-> Zero, kalman_gain |-> Zero,
         method |-> "none"]]

(***************************************************************************)
(* Quiz submission requests (submit_quiz_with_feedback): position and      *)
(* local variables of each request slot.                                   *)
(***************************************************************************)
\* the slots in which submissions run; two may be in flight together
ReqSlots == {1, 2}

\* the learner's session document before any submission: no quiz_results
NoSession ==
    [quiz_results |->
        [present |-> FALSE, responses |-> <<>>, misconceptions_discovered |-> <<>>]]

\* a slot in which no request runs
NoRequest ==
    [pc |-> "idle", user |-> "", payload |-> <<>>, topics |-> <<>>,
     session |-> NoSession,
     cognitive_traits |-> <<>>, feedback |-> <<>>, quiz_data |-> <<>>,
     trait_adjustments |-> <<>>, idx |-> 0, discovered |-> <<>>,
     classified |-> [kind |-> "", text |-> <<>>, confidence |-> 0],
     checks |-> 0, raised |-> 0, failures |-> 0, matched |-> FALSE,
     status |-> 0]

NoRequests == [r \in ReqSlots |-> NoRequest]

\* topic_traits of the learner's document: no topic has a profile yet
NoTopicTraits ==
    [t \in Topics |-> [present |-> FALSE, traits |-> <<>>, question_count |-> 0]]

(***************************************************************************)
(* Request slots: position and local variables; ret is the value returned  *)
(* by the call that completed last.                                        *)
(***************************************************************************)
NoRecord == NewMisconception(NoSuchId, <<>>, NoDate)

NoLocals ==
    [user |-> "", topic |-> "", text |-> <<>>, id |-> NoSuchId,
     domain |-> "", existing |-> NoRecord, sim |-> 0, count |-> 0]

NoReturn ==
    [op |-> "none", user |-> "", topic |-> "", text |-> <<>>,
     id |-> NoSuchId, domain |-> "", was_correct |-> FALSE,
     raised |-> FALSE, mc |-> NoRecord, result |-> FALSE,
     promoted |-> FALSE, reason |-> "", similarity |-> 0,
     student_count |-> 0, novelty_score |-> 0]

\* store_personal_misconception returns a PersonalMisconception
StoreReturn(u, t, text, mc) ==
    [NoReturn EXCEPT !.op = "store", !.user = u, !.topic = t, !.text = text,
                     !.mc = mc]

\* store_personal_misconception raises ValueError (user not found)
StoreRaise(u, t, text) ==
    [NoReturn EXCEPT !.op = "store", !.user = u, !.topic = t, !.text = text,
                     !.raised = TRUE]

\* update_misconception_resolution_status returns a bool
ResolutionReturn(u, t, id, was_correct, result) ==
    [NoReturn EXCEPT !.op = "resolution", !.user = u, !.topic = t, !.id = id,
                     !.was_correct = was_correct, !.result = result]

\* check_and_promote_misconception_to_global returns a decision dict
PromoteReturn(text, t, d, promoted, reason, sim, count, novelty) ==
    [NoReturn EXCEPT !.op = "promote", !.text = text, !.topic = t,
                     !.domain = d, !.promoted = promoted, !.reason = reason,
                     !.similarity = sim, !.student_count = count,
                     !.novelty_score = novelty]

\* a new request runs in the first idle slot
FreeSlot(p) ==
    /\ pc[p] = "idle"
    /\ \A q \in Procs : pc[q] = "idle" => p <= q

Init ==
    /\ users = [u \in Users |-> [t \in Topics |-> <<>>]]
    /\ globalKB = <<SeedRecord>>
    /\ pc = [p \in Procs |-> "idle"]
    /\ loc = [p \in Procs |-> NoLocals]
    /\ ret = NoReturn
    /\ calls = 0
    /\ traits = DefaultTraits
    /\ diagnostics = NoDiagnostics
    /\ updates = 0
    /\ evidence_log = <<>>
    /\ quiz_responses = <<>>
    /\ quiz_questions = <<>>
    /\ req = NoRequests
    /\ topic_traits = NoTopicTraits
    /\ started = 0
    /\ session = NoSession

(***************************************************************************)
(* store_personal_misconception                                            *)
(***************************************************************************)
\* the call and its find_one: user lookup and the search for an existing record
StoreFind(p, u, text, t) ==
    /\ FreeSlot(p)
    /\ calls < MaxCalls
    /\ calls' = calls + 1
    /\ IF u \notin Users
       THEN /\ ret' = StoreRaise(u, t, text)
            /\ UNCHANGED <<pc, loc>>
       ELSE LET i == FindExisting(users[u][t], text)
            IN /\ pc' = [pc EXCEPT ![p] =
                            IF i = 0 THEN "store_push" ELSE "store_update"]
               /\ loc' = [loc EXCEPT ![p] =
                            [NoLocals EXCEPT
                                !.user = u, !.topic = t, !.text = text,
                                !.existing = IF i = 0 THEN NoRecord
                                             ELSE users[u][t][i]]]
               /\ UNCHANGED ret
    /\ UNCHANGED <<users, globalKB, traitVars, handlerVars>>

\* the object returned for a re-detection: the record read, patched in memory
ReturnedExisting(existing, now) ==
    [existing EXCEPT !.frequency = @ + 1, !.last_occurrence = now]

\* update_one of a re-detection, and the return
StoreUpdateOne(p) ==
    /\ pc[p] = "store_update"
    /\ LET l == loc[p]
           Change(mc) == RedetectChange(mc, calls)
       IN /\ users' = UpdateElement(users, l.user, l.topic,
                                    l.existing.misconception_id, Change)
          /\ ret' = StoreReturn(l.user, l.topic, l.text,
                                ReturnedExisting(l.existing, calls))
    /\ pc' = [pc EXCEPT ![p] = "idle"]
    /\ loc' = [loc EXCEPT ![p] = NoLocals]
    /\ UNCHANGED <<globalKB, calls, traitVars, handlerVars>>

\* str(uuid.uuid4()): an id no other element of the array carries
FreshId(arr) == Len(arr) + 1

\* update_one with $push of a first detection, and the return
StorePush(p) ==
    /\ pc[p] = "store_push"
    /\ LET l == loc[p]
           new == NewMisconception(FreshId(users[l.user][l.topic]), l.text, calls)
       IN /\ users' = [users EXCEPT ![l.user][l.topic] = Append(@, new)]
          /\ ret' = StoreReturn(l.user, l.topic, l.text, new)
    /\ pc' = [pc EXCEPT ![p] = "idle"]
    /\ loc' = [loc EXCEPT ![p] = NoLocals]
    /\ UNCHANGED <<globalKB, calls, traitVars, handlerVars>>

(***************************************************************************)
(* update_misconception_resolution_status                                  *)
(***************************************************************************)
\* a threshold test that needs one correct answer more
StreakReachedStrict(arr, id) ==
    \E i \in 1..Len(arr) :
        /\ arr[i].misconception_id = id
        /\ arr[i].correct_streak > ResolutionThreshold

\* the threshold test on the document returned by find_one_and_update
StreakReached(arr, id) ==
    \E i \in 1..Len(arr) :
        /\ arr[i].misconception_id = id
        /\ arr[i].correct_streak >= ResolutionThreshold

\* was_correct: find_one_and_update with $inc, then the threshold test
ResolutionCorrect(p, u, t, id) ==
    /\ FreeSlot(p)
    /\ calls < MaxCalls
    /\ calls' = calls + 1
    /\ LET matched == u \in Users /\ PositionalIndex(users[u][t], id) # 0
           after == IF matched
                    THEN UpdateElement(users, u, t, id, StreakIncChange)
                    ELSE users
       IN /\ users' = after
          /\ IF matched /\ StreakReached(after[u][t], id)
             THEN /\ pc' = [pc EXCEPT ![p] = "res_resolve"]
                  /\ loc' = [loc EXCEPT ![p] =
                               [NoLocals EXCEPT !.user = u, !.topic = t,
                                                !.id = id]]
                  /\ UNCHANGED ret
             ELSE /\ ret' = ResolutionReturn(u, t, id, TRUE, FALSE)
                  /\ UNCHANGED <<pc, loc>>
    /\ UNCHANGED <<globalKB, traitVars, handlerVars>>

\* update_one that marks the record resolved; returns True
ResolutionMarkResolved(p) ==
    /\ pc[p] = "res_resolve"
    /\ LET l == loc[p]
           Change(mc) == ResolveChange(mc, calls)
       IN /\ users' = UpdateElement(users, l.user, l.topic, l.id, Change)
          /\ ret' = ResolutionReturn(l.user, l.topic, l.id, TRUE, TRUE)
    /\ pc' = [pc EXCEPT ![p] = "idle"]
    /\ loc' = [loc EXCEPT ![p] = NoLocals]
    /\ UNCHANGED <<globalKB, calls, traitVars, handlerVars>>

\* not was_correct: update_one that resets the streak; returns False
ResolutionIncorrect(p, u, t, id) ==
    /\ FreeSlot(p)
    /\ calls < MaxCalls
    /\ calls' = calls + 1
    /\ users' = IF u \in Users
                THEN UpdateElement(users, u, t, id, StreakResetChange)
                ELSE users
    /\ ret' = ResolutionReturn(u, t, id, FALSE, FALSE)
    /\ UNCHANGED <<pc, loc, globalKB, traitVars, handlerVars>>

(***************************************************************************)
(* check_and_promote_misconception_to_global                               *)
(***************************************************************************)
\* step 1: embedding, nearest-neighbour query and the novelty gate
PromoteQuery(p, text, t, d) ==
    /\ FreeSlot(p)
    /\ calls < MaxCalls
    /\ calls' = calls + 1
    /\ LET sim == MaxSimilarity(globalKB, text, d)
       IN IF TooSimilar(sim)
          THEN /\ ret' = PromoteReturn(text, t, d, FALSE, "duplicate", sim, 0, 0)
               /\ UNCHANGED <<pc, loc>>
          ELSE /\ pc' = [pc EXCEPT ![p] = "promo_aggregate"]
               /\ loc' = [loc EXCEPT ![p] =
                            [NoLocals EXCEPT !.text = text, !.topic = t,
                                             !.domain = d, !.sim = sim]]
               /\ UNCHANGED ret
    /\ UNCHANGED <<users, globalKB, traitVars, handlerVars>>

\* step 2: the aggregation over the users collection runs at the store
PromoteAggregate(p) ==
    /\ pc[p] = "promo_aggregate"
    /\ pc' = [pc EXCEPT ![p] = "promo_resume"]
    /\ loc' = [loc EXCEPT ![p].count = StudentCount(users, loc[p].text)]
    /\ UNCHANGED <<users, globalKB, ret, calls, traitVars, handlerVars>>

\* a step 3 that adds the record whatever the count
PromoteResumeUngated(p) ==
    /\ pc[p] = "promo_resume"
    /\ LET l == loc[p]
       IN /\ globalKB' = Append(globalKB,
                                PromotedRecord(l.text, l.topic, l.domain,
                                               l.count, l.sim))
          /\ ret' = PromoteReturn(l.text, l.topic, l.domain, TRUE, "",
                                  l.sim, l.count, SimOne - l.sim)
    /\ pc' = [pc EXCEPT ![p] = "idle"]
    /\ loc' = [loc EXCEPT ![p] = NoLocals]
    /\ UNCHANGED <<users, calls, traitVars, handlerVars>>

\* the frequency gate and step 3: collection.add, and the return
PromoteResume(p) ==
    /\ pc[p] = "promo_resume"
    /\ LET l == loc[p]
       IN IF BelowFrequency(l.count)
          THEN /\ ret' = PromoteReturn(l.text, l.topic, l.domain, FALSE,
                                       "insufficient_frequency", l.sim,
                                       l.count, 0)
               /\ UNCHANGED globalKB
          ELSE /\ globalKB' = Append(globalKB,
                                 PromotedRecord(l.text, l.topic, l.domain,
                                                l.count, l.sim))
               /\ ret' = PromoteReturn(l.text, l.topic, l.domain, TRUE, "",
                                       l.sim, l.count, SimOne - l.sim)
    /\ pc' = [pc EXCEPT ![p] = "idle"]
    /\ loc' = [loc EXCEPT ![p] = NoLocals]
    /\ UNCHANGED <<users, calls, traitVars, handlerVars>>

(***************************************************************************)
(* The tracker and the pipeline as one specification.                      *)
(***************************************************************************)
\* the learner whose lifecycle is exercised; the others supply frequency
Learner == "u1"

\* detections: any text and topic for the learner, one text for the others
StoreInputs ==
    ({Learner} \X {TxtLower, TxtUpper, TxtSub} \X {"t1"})
        \cup {<<Learner, TxtLower, "t2">>}
        \cup ((Users \ {Learner}) \cup {MissingUser}) \X {TxtLower} \X {"t1"}

\* tied answers: a record of the learner, or an id that no record carries
ResolutionInputs ==
    UNION {{<<Learner, t, users[Learner][t][i].misconception_id>> :
               i \in 1..Len(users[Learner][t])} : t \in Topics}
        \cup {<<Learner, "t1", NoSuchId>>}

\* promotion candidates
PromoteInputs ==
    (Texts \X {"t1"} \X {"d1"}) \cup ({TxtSub, TxtDot} \X {"t1"} \X {"d2"})

Next ==
    \/ \E p \in Procs, in \in StoreInputs : StoreFind(p, in[1], in[2], in[3])
    \/ \E p \in Procs : StoreUpdateOne(p)
    \/ \E p \in Procs : StorePush(p)
    \/ \E p \in Procs, in \in ResolutionInputs :
           ResolutionCorrect(p, in[1], in[2], in[3])
    \/ \E p \in Procs : ResolutionMarkResolved(p)
    \/ \E p \in Procs, in \in ResolutionInputs :
           ResolutionIncorrect(p, in[1], in[2], in[3])
    \/ \E p \in Procs, in \in PromoteInputs :
           PromoteQuery(p, in[1], in[2], in[3])
    \/ \E p \in Procs : PromoteAggregate(p)
    \/ \E p \in Procs : PromoteResume(p)

Spec == Init /\ [][Next]_vars

(***************************************************************************)
(* The trait state updater as a specification: update_traits applied       *)
(* repeatedly, each call starting from the vector the previous one         *)
(* returned.                                                               *)
(***************************************************************************)
\* number of successive update_traits calls in one run
MaxUpdates == 2

\* a question of the session
Question(number, tags, calc, difficulty, target) ==
    [question_number |-> number, traits_targeted |-> tags,
     requires_calculation |-> calc, difficulty |-> difficulty,
     misconception_target |-> target]

\* the questions of the session; 4 and 5 carry no tags
Questions ==
    << Question(1, <<"precision">>, FALSE, "medium", FALSE),
       Question(2, <<"curiosity", "analytical_depth", "creativity">>,
                FALSE, "medium", TRUE),
       Question(3, <<"curiosity", "precision", "cognitive_flexibility",
                     "creativity", "confidence">>, FALSE, "easy", FALSE),
       Question(4, <<>>, TRUE, "hard", TRUE),
       Question(5, <<>>, FALSE, "medium", FALSE),
       Question(6, <<"metacognition", "attention_consistency">>,
                FALSE, "hard", FALSE) >>

\* a response of a submission
Response(number, correct, confidence, reasoning, mc) ==
    [question_number |-> number, is_correct |-> correct,
     confidence |-> confidence, reasoning |-> reasoning,
     misconception_addressed |-> mc]

\* a misconception tied to a response
Misconception(confidence, affected) ==
    [present |-> TRUE, confidence |-> confidence, affected_traits |-> affected]

RA == Response(1, TRUE, Q(9, 10), NoText, NoMisconception)

RB == Response(2, FALSE, One, ShortText,
               Misconception(Q(9, 10), {"analytical_depth", "curiosity"}))

RC == Response(3, TRUE, One, NoText, NoMisconception)

\* a confidence outside [0, 1]
RD == Response(4, FALSE, Q(2, 1), RichText, NoMisconception)

\* a question number the session does not have
RE == Response(9, TRUE, Q(1, 2), ShortText, NoMisconception)

RF == Response(2, TRUE, Zero, RichText,
               Misconception(Q(7, 10), {"curiosity"}))

RG == Response(5, FALSE, Zero, NoText, NoMisconception)

RH == Response(6, TRUE, Q(7, 10), RichText, NoMisconception)

RI == Response(3, FALSE, One, NoText, NoMisconception)

\* the submissions drawn on: lists of responses
Submissions ==
    { <<>>, <<RA>>, <<RA, RA>>, <<RB>>, <<RC>>, <<RD>>, <<RE>>, <<RA, RE>>,
      <<RB, RF>>, <<RC, RD, RB>>, <<RG>>, <<RH>>, <<RI>>, <<RC, RI>>,
      <<RE, RB>> }

\* the values an initial vector holds in every trait
StartValues == {Zero, Q(1, 4), Q(1, 2), Q(3, 4), One}

InitTraits ==
    /\ users = [u \in Users |-> [t \in Topics |-> <<>>]]
    /\ globalKB = <<SeedRecord>>
    /\ pc = [p \in Procs |-> "idle"]
    /\ loc = [p \in Procs |-> NoLocals]
    /\ ret = NoReturn
    /\ calls = 0
    /\ \E v \in StartValues : traits = [trait \in TraitKeys |-> v]
    /\ diagnostics = NoDiagnostics
    /\ updates = 0
    /\ evidence_log = <<>>
    /\ quiz_responses = <<>>
    /\ quiz_questions = <<>>
    /\ req = NoRequests
    /\ topic_traits = NoTopicTraits
    /\ started = 0
    /\ session = NoSession

\* one call of update_traits on the current vector; the vector it returns
\* is the next call's current_traits
ApplyUpdate(responses) ==
    /\ updates < MaxUpdates
    /\ LET result == UpdateTraits(traits, responses, Questions)
       IN /\ traits' = [trait \in TraitKeys |-> result[trait].new_value]
          /\ diagnostics' = result
    /\ evidence_log' = EvidenceLog(responses, Questions, DOMAIN traits,
                                   Len(responses))
    /\ quiz_responses' = responses
    /\ quiz_questions' = Questions
    /\ updates' = updates + 1
    /\ UNCHANGED <<miscVars, handlerVars>>

NextTraits == \E responses \in Submissions : ApplyUpdate(responses)

SpecTraits == InitTraits /\ [][NextTraits]_vars

(***************************************************************************)
(* Evidence samples as a specification: update_traits called on one        *)
(* response to one question, over the metadata a question and the data a   *)
(* response can carry.                                                     *)
(***************************************************************************)
\* number of successive single-response calls in one run
MaxSamples == 1

\* the question number of the sampled question
SampleNumber == 1

\* a Q-matrix row that names every key of the vector
AllTags ==
    <<"precision", "confidence", "analytical_depth", "curiosity",
      "metacognition", "cognitive_flexibility", "pattern_recognition",
      "attention_consistency", "creativity">>

\* questions without tags, over all metadata, and tagged questions whose
\* metadata would infer other traits
SampleQuestions ==
    {Question(SampleNumber, <<>>, calc, difficulty, target) :
        calc \in BOOLEAN, difficulty \in {"medium", "hard"},
        target \in BOOLEAN}
    \cup {Question(SampleNumber, AllTags, TRUE, "hard", FALSE),
          Question(SampleNumber, <<"curiosity">>, TRUE, "hard", TRUE)}

\* the misconceptions a response can carry; 0.7 is the default confidence
SampleMisconceptions ==
    {NoMisconception,
     Misconception(Q(7, 10), {"analytical_depth", "precision", "curiosity"})}

\* responses over correctness, confidence, reasoning and misconception
SampleResponses ==
    {Response(SampleNumber, correct, confidence, reasoning, mc) :
        correct \in BOOLEAN, confidence \in {Q(9, 10), Q(2, 1)},
        reasoning \in {NoText, ShortText, RichText},
        mc \in SampleMisconceptions}

\* one call of update_traits on a single response to a single question
ApplySample(question, response) ==
    /\ updates < MaxSamples
    /\ LET result == UpdateTraits(traits, <<response>>, <<question>>)
       IN /\ traits' = [trait \in TraitKeys |-> result[trait].new_value]
          /\ diagnostics' = result
    /\ evidence_log' = EvidenceLog(<<response>>, <<question>>, DOMAIN traits, 1)
    /\ quiz_responses' = <<response>>
    /\ quiz_questions' = <<question>>
    /\ updates' = updates + 1
    /\ UNCHANGED <<miscVars, handlerVars>>

InitEvidence ==
    /\ users = [u \in Users |-> [t \in Topics |-> <<>>]]
    /\ globalKB = <<SeedRecord>>
    /\ pc = [p \in Procs |-> "idle"]
    /\ loc = [p \in Procs |-> NoLocals]
    /\ ret = NoReturn
    /\ calls = 0
    /\ traits = DefaultTraits
    /\ diagnostics = NoDiagnostics
    /\ updates = 0
    /\ evidence_log = <<>>
    /\ quiz_responses = <<>>
    /\ quiz_questions = <<>>
    /\ req = NoRequests
    /\ topic_traits = NoTopicTraits
    /\ started = 0
    /\ session = NoSession

NextEvidence ==
    \E question \in SampleQuestions, response \in SampleResponses :
        ApplySample(question, response)

SpecEvidence == InitEvidence /\ [][NextEvidence]_vars

(***************************************************************************)
(* submit_quiz_with_feedback: one quiz submission request.  The awaits of  *)
(* the handler are the points where another request interleaves.           *)
(***************************************************************************)
\* number of submissions started in one run
MaxRequests == 2

\* a response of the payload
Answer(number, selected, confidence, reasoning) ==
    [question_number |-> number, selected_answer |-> selected,
     confidence |-> confidence, reasoning |-> reasoning]

\* every question offers the option "right" of type correct
IsCorrect(question, selected_answer) == selected_answer = "right"

\* reasoning of the first response of the payload with the question number
FirstReasoning(payload, number) ==
    LET HasNumber(a) == a.question_number = number
    IN payload[FirstIndex(payload, HasNumber)].reasoning

\* feedback_results: the graded responses whose question the session has
RECURSIVE Grade(_, _)
Grade(payload, n) ==
    IF n = 0 THEN <<>>
    ELSE LET a == payload[n]
             qi == FindQuestion(a.question_number, Questions)
         IN IF qi = 0 THEN Grade(payload, n - 1)
            ELSE Append(Grade(payload, n - 1),
                        [question_number |-> a.question_number,
                         selected_answer |-> a.selected_answer,
                         is_correct |-> IsCorrect(Questions[qi], a.selected_answer),
                         confidence |-> a.confidence])

\* quiz_data: what the handler passes to update_traits; the dicts have no
\* misconception_addressed key
QuizData(payload, feedback) ==
    [i \in 1..Len(feedback) |->
        Response(feedback[i].question_number, feedback[i].is_correct,
                 feedback[i].confidence,
                 FirstReasoning(payload, feedback[i].question_number),
                 NoMisconception)]

\* updated_traits of an update_traits result
UpdatedTraits(result) == [trait \in DOMAIN result |-> result[trait].new_value]

\* question.get("topic", selected_topics[0] if selected_topics else "General");
\* the questions of the session carry no topic key
QuestionTopic(question, selected_topics) ==
    IF selected_topics # <<>> THEN selected_topics[1] ELSE "General"

\* question.get("metadata", {}).get("domain", "General")
QuestionDomain(question) == "General"

\* what the classifier call of extract_misconception_from_response gives:
\* an exception, no misconception, or a misconception with a confidence in
\* hundredths
ClassifierFails == [kind |-> "exception", text |-> <<>>, confidence |-> 0]

ClassifierNone == [kind |-> "null", text |-> <<>>, confidence |-> 0]

Discovered(text, confidence) ==
    [kind |-> "misconception", text |-> text, confidence |-> confidence]

\* extract_misconception_from_response: None unless a misconception came back
Extracted(classified) == classified.kind = "misconception"

\* the confidence floor of the handler, in hundredths
ConfidenceFloor == 60

\* a gate with the floor at 0.5
PersistableAtLowerFloor(classified) ==
    Extracted(classified) /\ classified.confidence >= 50

\* discovered and discovered.confidence >= 0.6
Persistable(classified) ==
    Extracted(classified) /\ classified.confidence >= ConfidenceFloor

\* store_personal_misconception as one step: the catalogue afterwards, and
\* whether ValueError was raised
StoreEffect(db, u, t, text, now) ==
    IF u \notin Users THEN [db |-> db, raised |-> TRUE]
    ELSE LET i == FindExisting(db[u][t], text)
             Change(mc) == RedetectChange(mc, now)
         IN [db |-> IF i = 0
                    THEN [db EXCEPT ![u][t] =
                             Append(@, NewMisconception(FreshId(@), text, now))]
                    ELSE UpdateElement(db, u, t, db[u][t][i].misconception_id,
                                       Change),
             raised |-> FALSE]

\* a pipeline whose failure comes after the record was added
PromoteEffectFailsAfterAdd(kb, db, text, t, d, fails) ==
    LET sim == MaxSimilarity(kb, text, d)
        count == StudentCount(db, text)
    IN IF TooSimilar(sim)
       THEN [kb |-> kb, promoted |-> FALSE, reason |-> "duplicate"]
       ELSE IF BelowFrequency(count)
       THEN [kb |-> kb, promoted |-> FALSE, reason |-> "insufficient_frequency"]
       ELSE [kb |-> Append(kb, PromotedRecord(text, t, d, count, sim)),
             promoted |-> ~fails, reason |-> IF fails THEN "error" ELSE ""]

\* check_and_promote_misconception_to_global as one step: the knowledge base
\* afterwards and the decision; fails: the embedder or the store raised
PromoteEffect(kb, db, text, t, d, fails) ==
    LET sim == MaxSimilarity(kb, text, d)
        count == StudentCount(db, text)
    IN IF fails
       THEN [kb |-> kb, promoted |-> FALSE, reason |-> "error"]
       ELSE IF TooSimilar(sim)
       THEN [kb |-> kb, promoted |-> FALSE, reason |-> "duplicate"]
       ELSE IF BelowFrequency(count)
       THEN [kb |-> kb, promoted |-> FALSE, reason |-> "insufficient_frequency"]
       ELSE [kb |-> Append(kb, PromotedRecord(text, t, d, count, sim)),
             promoted |-> TRUE, reason |-> ""]

\* the vector of the authenticated user model: the eight traits of the
\* learner's document, or the defaults of a user model whose id no document
\* carries
CurrentTraits(u) ==
    IF u = Learner THEN [trait \in KnownTraits |-> traits[trait]]
    ELSE [trait \in KnownTraits |-> Q(1, 2)]

\* a new request runs in the first slot that is not in flight
FreeReqSlot(r) ==
    /\ req[r].pc \in {"idle", "done"}
    /\ \A q \in ReqSlots : req[q].pc \in {"idle", "done"} => r <= q

\* the request arrives: get_current_user has read the learner's document
BeginRequest(r, u, payload, topics) ==
    /\ FreeReqSlot(r)
    /\ started < MaxRequests
    /\ started' = started + 1
    /\ req' = [req EXCEPT ![r] =
                  [NoRequest EXCEPT !.pc = "fetch", !.user = u,
                                    !.payload = payload, !.topics = topics,
                                    !.cognitive_traits = CurrentTraits(u)]]
    /\ UNCHANGED <<miscVars, traitVars, topic_traits, session>>

\* find_one({"_id": session_id, "user_id": current_user.id}): the learner's
\* session, or for another user id that user's own session, which no
\* submission has reached
FetchedSession(u) == IF u = Learner THEN session ELSE NoSession

\* steps 1 to 5: the session is fetched, the responses are graded and
\* update_traits runs on the vector read with the user
GradeAndUpdate(r) ==
    /\ req[r].pc = "fetch"
    /\ LET feedback == Grade(req[r].payload, Len(req[r].payload))
           quiz_data == QuizData(req[r].payload, feedback)
           result == UpdateTraits(req[r].cognitive_traits, quiz_data, Questions)
       IN req' = [req EXCEPT ![r].pc = "detect",
                             ![r].session = FetchedSession(req[r].user),
                             ![r].feedback = feedback,
                             ![r].quiz_data = quiz_data,
                             ![r].trait_adjustments = UpdatedTraits(result),
                             ![r].idx = 1]
    /\ UNCHANGED <<miscVars, traitVars, topic_traits, started, session>>

\* the graded response the loop of step 6 is at needs the classifier
NeedsClassifier(r) ==
    LET resp == req[r].feedback[req[r].idx]
    IN /\ ~resp.is_correct
       /\ FirstReasoning(req[r].payload, resp.question_number).words > 0

\* step 6, a response that is correct or has no reasoning: skipped
DetectSkip(r) ==
    /\ req[r].pc = "detect"
    /\ req[r].idx <= Len(req[r].feedback)
    /\ ~NeedsClassifier(r)
    /\ req' = [req EXCEPT ![r].idx = @ + 1,
                          ![r].classified = NoRequest.classified]
    /\ UNCHANGED <<miscVars, traitVars, topic_traits, started, session>>

\* step 6, an incorrect response with reasoning: the classifier, and for a
\* result at or above the floor the personal record and the promotion check;
\* an exception of the body is logged and the loop continues
DetectClassify(r, classified, promotionFails) ==
    /\ req[r].pc = "detect"
    /\ req[r].idx <= Len(req[r].feedback)
    /\ NeedsClassifier(r)
    /\ LET resp == req[r].feedback[req[r].idx]
           question == Questions[FindQuestion(resp.question_number, Questions)]
           topic == QuestionTopic(question, req[r].topics)
           store == StoreEffect(users, req[r].user, topic, classified.text,
                                calls + 1)
           promo == PromoteEffect(globalKB, store.db, classified.text, topic,
                                  QuestionDomain(question), promotionFails)
           failed == IF classified.kind = "exception" THEN 1 ELSE 0
       IN IF ~Persistable(classified)
          THEN /\ req' = [req EXCEPT ![r].idx = @ + 1,
                                     ![r].classified = classified,
                                     ![r].failures = @ + failed]
               /\ UNCHANGED <<users, globalKB, calls>>
          ELSE IF store.raised
          THEN /\ req' = [req EXCEPT ![r].idx = @ + 1,
                                     ![r].classified = classified,
                                     ![r].raised = @ + 1]
               /\ UNCHANGED <<users, globalKB, calls>>
          ELSE /\ users' = store.db
               /\ globalKB' = promo.kb
               /\ calls' = calls + 1
               /\ req' = [req EXCEPT
                             ![r].idx = @ + 1,
                             ![r].classified = classified,
                             ![r].checks = @ + 1,
                             ![r].failures =
                                 @ + (IF promo.reason = "error" THEN 1 ELSE 0),
                             ![r].discovered =
                                 Append(@, [question_number |-> resp.question_number,
                                            misconception |-> classified.text,
                                            promoted_to_global |-> promo.promoted])]
    /\ UNCHANGED <<pc, loc, ret, traitVars, topic_traits, started, session>>

\* step 7: the loop is over and the quiz results are saved to the session
SaveResults(r) ==
    /\ req[r].pc = "detect"
    /\ req[r].idx > Len(req[r].feedback)
    /\ req' = [req EXCEPT ![r].pc = "persist"]
    /\ session' = IF req[r].user # Learner THEN session
                  ELSE [quiz_results |->
                           [present |-> TRUE, responses |-> req[r].feedback,
                            misconceptions_discovered |-> req[r].discovered]]
    /\ UNCHANGED <<miscVars, traitVars, topic_traits, started>>

\* the profile written for a selected topic
TopicProfile(trait_adjustments, total_questions) ==
    [present |-> TRUE, traits |-> trait_adjustments,
     question_count |-> total_questions]

\* step 8: update_one on the learner's document, which matches nothing when
\* no document carries the id, and the response
PersistTraits(r) ==
    /\ req[r].pc = "persist"
    /\ LET matched == req[r].user = Learner
           selected == {req[r].topics[i] : i \in 1..Len(req[r].topics)}
       IN /\ traits' = IF matched THEN req[r].trait_adjustments ELSE traits
          /\ topic_traits' =
                 [t \in Topics |->
                     IF matched /\ t \in selected
                     THEN TopicProfile(req[r].trait_adjustments,
                                       Len(req[r].payload))
                     ELSE topic_traits[t]]
          /\ req' = [req EXCEPT ![r].pc = "done", ![r].matched = matched,
                                ![r].status = 200]
    /\ UNCHANGED <<miscVars, diagnostics, updates, evidence_log, quiz_responses,
                 quiz_questions, started, session>>

(***************************************************************************)
(* Quiz submissions as a specification: requests of one learner, up to two *)
(* in flight together, and a request whose user id no document carries.    *)
(***************************************************************************)
\* a correct answer tagged precision and an incorrect one without reasoning
PA == << Answer(1, "right", Q(9, 10), NoText),
         Answer(6, "wrong", Q(7, 10), NoText) >>

\* an incorrect answer with reasoning
PB == << Answer(2, "wrong", One, ShortText) >>

\* a correct answer, an incorrect one with reasoning, and an answer to a
\* question the session does not have
PC == << Answer(3, "right", One, NoText),
         Answer(2, "wrong", One, RichText),
         Answer(9, "right", Q(1, 2), ShortText) >>

\* user, payload and selected_topics of the submissions drawn on
SubmitInputs ==
    { <<Learner, PA, <<>> >>, <<Learner, PA, <<"t2">> >>,
      <<Learner, PB, <<"t1">> >>, <<Learner, PC, <<"t1", "t2">> >>,
      <<MissingUser, PB, <<"t1">> >> }

\* what the classifier returns for an incorrect answer
Classifications ==
    { ClassifierFails, ClassifierNone, Discovered(TxtLower, 59),
      Discovered(TxtLower, 60), Discovered(TxtUpper, 90) }

\* two other learners already hold the misconception the classifier finds
InitSubmit ==
    /\ users = [u \in Users |->
                   [t \in Topics |->
                       IF u # Learner /\ t = "t1"
                       THEN <<NewMisconception(1, TxtLower, 0)>> ELSE <<>>]]
    /\ globalKB = <<SeedRecord>>
    /\ pc = [p \in Procs |-> "idle"]
    /\ loc = [p \in Procs |-> NoLocals]
    /\ ret = NoReturn
    /\ calls = 0
    /\ traits = [trait \in KnownTraits |-> Q(1, 2)]
    /\ diagnostics = NoDiagnostics
    /\ updates = 0
    /\ evidence_log = <<>>
    /\ quiz_responses = <<>>
    /\ quiz_questions = <<>>
    /\ req = NoRequests
    /\ topic_traits = NoTopicTraits
    /\ started = 0
    /\ session = NoSession

NextSubmit ==
    \/ \E r \in ReqSlots, in \in SubmitInputs :
           BeginRequest(r, in[1], in[2], in[3])
    \/ \E r \in ReqSlots : GradeAndUpdate(r)
    \/ \E r \in ReqSlots : DetectSkip(r)
    \/ \E r \in ReqSlots, classified \in Classifications, fails \in BOOLEAN :
           DetectClassify(r, classified, fails)
    \/ \E r \in ReqSlots : SaveResults(r)
    \/ \E r \in ReqSlots : PersistTraits(r)

SpecSubmit == InitSubmit /\ [][NextSubmit]_vars

(***************************************************************************)
(* Concurrent promotion checks: the pipeline run by two request slots,     *)
(* for one candidate text that three learners come to hold.                *)
(***************************************************************************)
\* the slots of the concurrent pipeline
PromoteSlots == {1, 2}

\* detections that build the quorum
QuorumInputs == Users \X {TxtLower} \X {"t1"}

\* the candidate of the concurrent checks
CandidateInputs == {<<TxtLower, "t1", "d2">>, <<TxtLower, "t1", "d1">>}

InitPromote ==
    /\ users = [u \in Users |-> [t \in Topics |-> <<>>]]
    /\ globalKB = <<SeedRecord>>
    /\ pc = [p \in PromoteSlots |-> "idle"]
    /\ loc = [p \in PromoteSlots |-> NoLocals]
    /\ ret = NoReturn
    /\ calls = 0
    /\ traits = DefaultTraits
    /\ diagnostics = NoDiagnostics
    /\ updates = 0
    /\ evidence_log = <<>>
    /\ quiz_responses = <<>>
    /\ quiz_questions = <<>>
    /\ req = NoRequests
    /\ topic_traits = NoTopicTraits
    /\ started = 0
    /\ session = NoSession

NextPromote ==
    \/ \E p \in PromoteSlots, in \in QuorumInputs :
           StoreFind(p, in[1], in[2], in[3])
    \/ \E p \in PromoteSlots : StoreUpdateOne(p)
    \/ \E p \in PromoteSlots : StorePush(p)
    \/ \E p \in PromoteSlots, in \in CandidateInputs :
           PromoteQuery(p, in[1], in[2], in[3])
    \/ \E p \in PromoteSlots : PromoteAggregate(p)
    \/ \E p \in PromoteSlots : PromoteResume(p)

SpecPromote == InitPromote /\ [][NextPromote]_vars

(***************************************************************************)
(* Concurrent tracker calls: detections and tied answers of one learner in *)
(* one topic, run by two request slots.                                    *)
(***************************************************************************)
\* the slots of the concurrent tracker calls
TrackerSlots == {1, 2}

\* detections of one text, in two spellings
TrackerStoreInputs == {Learner} \X {TxtLower, TxtUpper} \X {"t1"}

\* tied answers: a record of the learner in the topic
TrackerResolutionInputs ==
    {<<Learner, "t1", users[Learner]["t1"][i].misconception_id>> :
        i \in 1..Len(users[Learner]["t1"])}

InitTracker ==
    /\ users = [u \in Users |-> [t \in Topics |-> <<>>]]
    /\ globalKB = <<SeedRecord>>
    /\ pc = [p \in TrackerSlots |-> "idle"]
    /\ loc = [p \in TrackerSlots |-> NoLocals]
    /\ ret = NoReturn
    /\ calls = 0
    /\ traits = DefaultTraits
    /\ diagnostics = NoDiagnostics
    /\ updates = 0
    /\ evidence_log = <<>>
    /\ quiz_responses = <<>>
    /\ quiz_questions = <<>>
    /\ req = NoRequests
    /\ topic_traits = NoTopicTraits
    /\ started = 0
    /\ session = NoSession

NextTracker ==
    \/ \E p \in TrackerSlots, in \in TrackerStoreInputs :
           StoreFind(p, in[1], in[2], in[3])
    \/ \E p \in TrackerSlots : StoreUpdateOne(p)
    \/ \E p \in TrackerSlots : StorePush(p)
    \/ \E p \in TrackerSlots, in \in TrackerResolutionInputs :
           ResolutionCorrect(p, in[1], in[2], in[3])
    \/ \E p \in TrackerSlots : ResolutionMarkResolved(p)
    \/ \E p \in TrackerSlots, in \in TrackerResolutionInputs :
           ResolutionIncorrect(p, in[1], in[2], in[3])

SpecTracker == InitTracker /\ [][NextTracker]_vars

(***************************************************************************)
(* Claims about the tracker and the pipeline.                              *)
(***************************************************************************)
\* a correct-answer call has incremented the streak of this record and has
\* not yet returned
ResolveInFlight(u, t, id) ==
    \E p \in Procs :
        /\ pc[p] = "res_resolve"
        /\ loc[p].user = u /\ loc[p].topic = t /\ loc[p].id = id

\* C2: a record that has only received correct answers since its first
\* detection is Active with streak 0 before the first of them, and once the
\* k-th of them has returned it is Resolved, with a resolution timestamp,
\* if and only if k >= 3.
C2_ResolvedAfterThreeCorrect ==
    \A u \in Users, t \in Topics :
        \A i \in 1..Len(users[u][t]) :
            LET mc == users[u][t][i]
            IN /\ mc.consec = 0 =>
                     /\ mc.correct_streak = 0
                     /\ ~mc.resolved
                     /\ mc.resolution_date = NoDate
               /\ (mc.consec >= 0 /\ ~ResolveInFlight(u, t, mc.misconception_id)) =>
                     /\ mc.resolved <=> mc.consec >= 3
                     /\ mc.resolved <=> mc.resolution_date # NoDate

\* C2 witness: the third consecutive correct answer has returned and the
\* record is Resolved.
C2_Witness ==
    /\ \A p \in Procs : pc[p] = "idle"
    /\ ret.op = "resolution" /\ ret.was_correct /\ ret.result
    /\ \E i \in 1..Len(users[Learner]["t1"]) :
           LET mc == users[Learner]["t1"][i]
           IN mc.consec = 3 /\ mc.resolved /\ mc.resolution_date # NoDate

\* C3: a detection goes to the update of an existing record exactly when a
\* record of the learner and topic has the same text up to case; that update
\* creates no record and leaves the first such record with frequency + 1,
\* last_occurrence = now, correct_streak = 0 and resolved = false.
C3_RedetectionUpdatesExisting ==
    [][\A p \in Procs :
          /\ (pc[p] = "idle" /\ pc'[p] \in {"store_push", "store_update"}) =>
                LET l == loc'[p]
                    arr == users[l.user][l.topic]
                IN pc'[p] = "store_update" <=>
                       \E i \in 1..Len(arr) :
                           Lower(arr[i].misconception_text) = Lower(l.text)
          /\ (pc[p] = "store_update" /\ pc'[p] = "idle") =>
                LET l == loc[p]
                    arr == users[l.user][l.topic]
                    new == users'[l.user][l.topic]
                IN /\ \A u \in Users, t \in Topics :
                          Len(users'[u][t]) = Len(users[u][t])
                   /\ \E i \in 1..Len(arr) :
                          /\ Lower(arr[i].misconception_text) = Lower(l.text)
                          /\ \A j \in 1..(i - 1) :
                                 Lower(arr[j].misconception_text) # Lower(l.text)
                          /\ new[i].misconception_text = arr[i].misconception_text
                          /\ new[i].frequency = arr[i].frequency + 1
                          /\ new[i].last_occurrence = calls
                          /\ new[i].correct_streak = 0
                          /\ new[i].resolved = FALSE
      ]_vars

\* C3 witness: a Resolved record has just been re-detected under a text that
\* differs in case, and is Active again with a higher frequency.
C3_Witness ==
    /\ ret.op = "store" /\ ~ret.raised
    /\ \E i \in 1..Len(users[Learner]["t1"]) :
           LET mc == users[Learner]["t1"][i]
           IN /\ mc.misconception_text # ret.text
              /\ Lower(mc.misconception_text) = Lower(ret.text)
              /\ mc.frequency = 2
              /\ mc.resolution_date # NoDate
              /\ ~mc.resolved /\ mc.correct_streak = 0
              /\ mc.last_occurrence = calls

\* C4: an incorrect answer tied to a record sets its correct_streak to 0 and
\* resolved to false and leaves its frequency, and every other record of
\* every learner, unchanged.
C4_IncorrectResetsOnlyStreak ==
    [][(calls' = calls + 1 /\ pc' = pc
            /\ ret'.op = "resolution" /\ ~ret'.was_correct) =>
          \A u \in Users, t \in Topics :
              /\ Len(users'[u][t]) = Len(users[u][t])
              /\ \A i \in 1..Len(users[u][t]) :
                     LET old == users[u][t][i]
                         new == users'[u][t][i]
                     IN IF u = ret'.user /\ t = ret'.topic
                            /\ old.misconception_id = ret'.id
                        THEN /\ new.correct_streak = 0
                             /\ new.resolved = FALSE
                             /\ new.frequency = old.frequency
                             /\ new.misconception_id = old.misconception_id
                             /\ new.misconception_text = old.misconception_text
                        ELSE new = old
      ]_vars

\* C4 witness: an incorrect answer has just returned a Resolved record, never
\* re-detected, to Active with streak 0.
C4_Witness ==
    /\ ret.op = "resolution" /\ ~ret.was_correct
    /\ \E i \in 1..Len(users[Learner][ret.topic]) :
           LET mc == users[Learner][ret.topic][i]
           IN /\ mc.misconception_id = ret.id
              /\ mc.resolution_date # NoDate
              /\ mc.frequency = 1
              /\ ~mc.resolved /\ mc.correct_streak = 0

\* some record of the domain is at similarity >= 0.85 of the candidate
NearNeighbour(text, d) ==
    \E i \in 1..Len(globalKB) :
        /\ globalKB[i].subject = d
        /\ SimOne - Distance(Embed(text), globalKB[i].embedding) >= 170

\* learners with a record, in any topic, that the pattern matches
LearnersMatching(text) ==
    {u \in Users : \E t \in Topics : \E i \in 1..Len(users[u][t]) :
        RegexMatch(users[u][t][i].misconception_text, text)}

\* C5: a promotion check whose candidate has a same-domain neighbour at
\* similarity >= 0.85 returns at once, not promoted, with reason duplicate,
\* and leaves the shared store unchanged; a check that goes on to count
\* learners has no such neighbour.
C5_DuplicateRejected ==
    [][calls' = calls + 1 =>
          /\ (pc' = pc /\ ret'.op = "promote") =>
                /\ NearNeighbour(ret'.text, ret'.domain)
                /\ ~ret'.promoted
                /\ ret'.reason = "duplicate"
                /\ ret'.similarity >= 170
                /\ globalKB' = globalKB
          /\ \A p \in Procs :
                pc'[p] = "promo_aggregate" =>
                    ~NearNeighbour(loc'[p].text, loc'[p].domain)
      ]_vars

\* C5 witness: a candidate that three learners hold is rejected as duplicate.
C5_Witness ==
    /\ ret.op = "promote" /\ ret.reason = "duplicate" /\ ~ret.promoted
    /\ Cardinality(LearnersMatching(ret.text)) >= 3
    /\ Len(globalKB) = 1

\* C6: when the novelty gate has passed and the learner count of the call is
\* below 3, the call returns not promoted with reason insufficient_frequency
\* and the shared store is unchanged.
C6_InsufficientFrequency ==
    [][\A p \in Procs :
          (pc[p] = "promo_resume" /\ pc'[p] = "idle"
               /\ loc[p].sim < 170 /\ loc[p].count < 3) =>
              /\ ~ret'.promoted
              /\ ret'.reason = "insufficient_frequency"
              /\ ret'.student_count = loc[p].count
              /\ globalKB' = globalKB
      ]_vars

\* C6 witness: similarity 0.5 and two supporting learners.
C6_Witness ==
    /\ ret.op = "promote" /\ ret.reason = "insufficient_frequency"
    /\ ret.similarity = 100 /\ ret.student_count = 2
    /\ Cardinality(LearnersMatching(ret.text)) = 2

\* C7: when the novelty gate has passed and the learner count of the call is
\* at least 3, the call returns promoted and appends exactly one record,
\* with novelty_score = 1 - similarity and frequency = that count.
C7_PromotionAppendsOne ==
    [][\A p \in Procs :
          (pc[p] = "promo_resume" /\ pc'[p] = "idle"
               /\ loc[p].sim < 170 /\ loc[p].count >= 3) =>
              /\ ret'.promoted
              /\ ret'.student_count = loc[p].count
              /\ ret'.novelty_score = 200 - loc[p].sim
              /\ Len(globalKB') = Len(globalKB) + 1
              /\ SubSeq(globalKB', 1, Len(globalKB)) = globalKB
              /\ LET rec == globalKB'[Len(globalKB')]
                 IN /\ rec.document = loc[p].text
                    /\ rec.subject = loc[p].domain
                    /\ rec.topic = loc[p].topic
                    /\ rec.novelty_score = 200 - loc[p].sim
                    /\ rec.frequency = loc[p].count
      ]_vars

\* C7 witness: a candidate at similarity 0.55 held by three learners is in
\* the shared store with novelty 0.45 and frequency 3.
C7_Witness ==
    /\ ret.op = "promote" /\ ret.promoted
    /\ Len(globalKB) = 2
    /\ globalKB[2].novelty_score = 90
    /\ globalKB[2].frequency = 3
    /\ Cardinality(LearnersMatching(ret.text)) = 3

\* the text occurs in the input, compared character by character up to case
ContainsText(input, text) ==
    \E off \in 0..(Len(input) - Len(text)) :
        \A i \in 1..Len(text) : LowerChar(text[i]) = LowerChar(input[off + i])

\* learners with a record, in any topic, whose text contains the candidate
LearnersHolding(text) ==
    {u \in Users : \E t \in Topics : \E i \in 1..Len(users[u][t]) :
        ContainsText(users[u][t][i].misconception_text, text)}

\* C8: the frequency used by the gate is the number of distinct learners with
\* a record, in any topic, whose text matches the candidate text up to case.
C8_CountIsLearnersHoldingText ==
    \A p \in Procs :
        pc[p] = "promo_resume" =>
            loc[p].count = Cardinality(LearnersHolding(loc[p].text))

(***************************************************************************)
(* Claims about the trait state updater.                                   *)
(***************************************************************************)
\* the trait received evidence in the last update
Evidenced(trait) == diagnostics[trait].method = "cdm_bkt_kalman"

\* 0 <= x <= 1
InUnit(x) == RLeq(Zero, x) /\ RLeq(x, One)

\* C1: after any sequence of update_traits calls on a vector whose values
\* lie in [0, 1], whatever the correctness, confidence, reasoning and
\* misconception data of the responses, every value of the returned vector
\* lies in [0, 1].
C1_TraitsStayInUnitInterval ==
    \A trait \in TraitKeys :
        /\ InUnit(traits[trait])
        /\ InUnit(diagnostics[trait].new_value)

\* a second update has run, on a response whose confidence is outside
\* [0, 1] and whose evidence score was clamped to 0; it left one trait at the
\* lower end of the interval while an earlier update had raised another
C1_Witness ==
    /\ updates = 2
    /\ Evidenced("pattern_recognition")
    /\ diagnostics["pattern_recognition"].avg_performance = Zero
    /\ traits["pattern_recognition"] = Zero
    /\ \E trait \in TraitKeys : RLess(Zero, traits[trait])

\* C9: a trait that received evidence moves from its old value towards the
\* weighted average evidence score: the new value lies between the old value
\* and avg_performance, never further from it and never beyond it.
C9_MovesTowardsAverage ==
    \A trait \in TraitKeys :
        Evidenced(trait) =>
            LET d == diagnostics[trait]
            IN /\ RLess(d.old_value, d.avg_performance) =>
                      /\ RLeq(d.old_value, d.new_value)
                      /\ RLeq(d.new_value, d.avg_performance)
               /\ RLess(d.avg_performance, d.old_value) =>
                      /\ RLeq(d.avg_performance, d.new_value)
                      /\ RLeq(d.new_value, d.old_value)
               /\ d.avg_performance = d.old_value => d.new_value = d.old_value

\* one update moved a trait up, strictly between old value and average, and
\* another trait down, strictly between average and old value
C9_Witness ==
    \E up, down \in TraitKeys :
        /\ Evidenced(up) /\ Evidenced(down)
        /\ RLess(diagnostics[up].old_value, diagnostics[up].new_value)
        /\ RLess(diagnostics[up].new_value, diagnostics[up].avg_performance)
        /\ RLess(diagnostics[down].avg_performance, diagnostics[down].new_value)
        /\ RLess(diagnostics[down].new_value, diagnostics[down].old_value)

\* two evidenced traits with the same old value and the same average
\* evidence score, which differs from the old value
SameEvidence(t1, t2) ==
    /\ Evidenced(t1) /\ Evidenced(t2)
    /\ diagnostics[t1].old_value = diagnostics[t2].old_value
    /\ diagnostics[t1].avg_performance = diagnostics[t2].avg_performance
    /\ diagnostics[t1].avg_performance # diagnostics[t1].old_value

\* C10: the update uses the configured per-trait gains (curiosity 0.35,
\* precision 0.15, 0.20 for a trait without an entry), and of two traits with
\* different gains, the same old value and the same average evidence score
\* different from the old value, the one with the higher gain changes by a
\* strictly greater absolute amount.
C10_HigherGainMovesFurther ==
    /\ Evidenced("curiosity") => diagnostics["curiosity"].kalman_gain = Q(35, 100)
    /\ Evidenced("precision") => diagnostics["precision"].kalman_gain = Q(15, 100)
    /\ Evidenced(UnknownTrait) => diagnostics[UnknownTrait].kalman_gain = Q(20, 100)
    /\ \A t1, t2 \in TraitKeys :
           /\ SameEvidence(t1, t2)
           /\ RLess(diagnostics[t2].kalman_gain, diagnostics[t1].kalman_gain)
           => RLess(RAbs(diagnostics[t2].change), RAbs(diagnostics[t1].change))

\* curiosity and precision were updated from the same old value with the
\* same average, as were the trait without an entry and a faster one
C10_Witness ==
    /\ SameEvidence("curiosity", "precision")
    /\ SameEvidence("cognitive_flexibility", UnknownTrait)
    /\ RLess(diagnostics["precision"].change, Zero)
    /\ RLess(diagnostics["curiosity"].change, diagnostics["precision"].change)

\* some response of the list is matched to a question that targets the trait
Targeted(trait, responses) ==
    \E i \in 1..Len(responses) :
        LET qi == FindQuestion(responses[i].question_number, Questions)
        IN /\ qi # 0
           /\ \E k \in 1..Len(TraitsTargeted(Questions[qi])) :
                  TraitsTargeted(Questions[qi])[k] = trait

\* the diagnostics entry of a trait left alone
LeftAlone(trait) ==
    /\ traits'[trait] = traits[trait]
    /\ diagnostics'[trait].method = "no_evidence"
    /\ diagnostics'[trait].old_value = traits[trait]
    /\ diagnostics'[trait].new_value = traits[trait]
    /\ diagnostics'[trait].change = Zero
    /\ diagnostics'[trait].evidence_count = 0

\* C11: update_traits leaves unchanged every trait that no matched response
\* targets: same value, diagnostic method 'no_evidence', change 0 and
\* evidence_count 0; an empty response list returns the input vector
\* unchanged with every diagnostic marked 'no_evidence'.
C11_UntargetedTraitsUnchanged ==
    [][\A responses \in Submissions :
           ApplyUpdate(responses) =>
               /\ \A trait \in TraitKeys :
                      ~Targeted(trait, responses) => LeftAlone(trait)
               /\ responses = <<>> =>
                      /\ traits' = traits
                      /\ \A trait \in TraitKeys :
                             diagnostics'[trait].method = "no_evidence"]_vars

\* an update on an already moved vector changed one trait and left another,
\* which an earlier update had moved, at its value with 'no_evidence'
C11_Witness ==
    /\ updates = 2
    /\ \E moved, kept \in TraitKeys :
           /\ Evidenced(moved)
           /\ diagnostics[moved].change # Zero
           /\ diagnostics[kept].method = "no_evidence"
           /\ diagnostics[kept].evidence_count = 0
           /\ traits[kept] = diagnostics[kept].old_value
           /\ traits[kept] \notin StartValues

\* x rounded to three decimals, in thousandths
Round3(x) == (2000 * x[1] + x[2]) \div (2 * x[2])

\* the example's update: precision at 0.5, two responses to a question tagged
\* precision, both correct, confidence 0.9, no reasoning text
ExampleUpdate == traits["precision"] = Q(1, 2) /\ ApplyUpdate(<<RA, RA>>)

\* C12 as stated: in the example each evidence sample scores 0.956, the
\* weighted average is 0.956 and the updated precision is 0.568 (to three
\* decimals).
C12_ExampleAsStated ==
    [][ExampleUpdate =>
          /\ Round3(GatherEvidence(RA, "precision").score) = 956
          /\ Round3(diagnostics'["precision"].avg_performance) = 956
          /\ Round3(traits'["precision"]) = 568]_vars

\* C12 amended: precision is a calibration trait, so its calibration term
\* weighs 1.2: each evidence sample scores (1.0 + 0.9*1.2)/(1.0 + 1.2) =
\* 0.945, the weighted average is 0.945 and the updated precision is
\* 0.5 + 0.15*(0.945 - 0.5) = 0.567 (to three decimals).
C12_ExampleWithCalibrationWeight ==
    [][ExampleUpdate =>
          /\ GatherEvidence(RA, "precision").weight = Q(22, 10)
          /\ Round3(GatherEvidence(RA, "precision").score) = 945
          /\ diagnostics'["precision"].evidence_count = 2
          /\ Round3(diagnostics'["precision"].avg_performance) = 945
          /\ diagnostics'["precision"].kalman_gain = Q(15, 100)
          /\ Round3(traits'["precision"]) = 567]_vars

\* the example has run: two samples for precision from 0.5
C12_Witness ==
    /\ Evidenced("precision")
    /\ diagnostics["precision"].old_value = Q(1, 2)
    /\ diagnostics["precision"].evidence_count = 2
    /\ diagnostics["precision"].avg_performance = Q(52, 55)
    /\ traits["precision"] = diagnostics["precision"].new_value

(***************************************************************************)
(* Claims about quiz submissions.                                          *)
(***************************************************************************)
\* request r takes a step of the loop of step 6
DetectStep(r) == req[r].pc = "detect" /\ req'[r].idx = req[r].idx + 1

\* request r writes the learner's document and returns
PersistStep(r) == req[r].pc = "persist" /\ req'[r].pc = "done"

\* C13: within one submission, detection and recording of the misconceptions
\* of the incorrect responses precede the trait update, which consumes their
\* flags: every misconception the request recorded is attached to the
\* matching response of the quiz_data that update_traits was given.
C13_UpdateConsumesDetectedFlags ==
    \A r \in ReqSlots :
        \A i \in 1..Len(req[r].discovered) :
            \E k \in 1..Len(req[r].quiz_data) :
                /\ req[r].quiz_data[k].question_number =
                       req[r].discovered[i].question_number
                /\ req[r].quiz_data[k].misconception_addressed.present

\* the vector update_traits returns for a quiz_data list
Applied(vector, quiz_data) ==
    UpdatedTraits(UpdateTraits(vector, quiz_data, Questions))

\* C14: when two submissions of the learner were in flight together and both
\* have completed, the persisted vector is the result of applying the two
\* updates one after the other in some order.
C14_ConcurrentUpdatesSerialize ==
    (/\ \A r \in ReqSlots : req[r].pc = "done" /\ req[r].user = Learner
     /\ started = 2)
    => LET start == [trait \in KnownTraits |-> Q(1, 2)]
       IN \/ traits = Applied(Applied(start, req[1].quiz_data), req[2].quiz_data)
          \/ traits = Applied(Applied(start, req[2].quiz_data), req[1].quiz_data)

C18_EnrichmentFailureTolerated ==
    [][\A r \in ReqSlots :
          /\ (DetectStep(r) /\ req'[r].failures = req[r].failures + 1) =>
                 /\ globalKB' = globalKB
                 /\ req'[r].checks = req[r].checks =>
                        /\ req'[r].classified.kind = "exception"
                        /\ users' = users
                        /\ req'[r].discovered = req[r].discovered
                 /\ req'[r].checks = req[r].checks + 1 =>
                        /\ Len(req'[r].discovered) = Len(req[r].discovered) + 1
                        /\ ~req'[r].discovered[Len(req'[r].discovered)].promoted_to_global
          /\ (PersistStep(r) /\ req[r].failures > 0 /\ req[r].user = Learner) =>
                 /\ req'[r].status = 200
                 /\ req[r].trait_adjustments =
                        Applied(req[r].cognitive_traits, req[r].quiz_data)
                 /\ traits' = req[r].trait_adjustments]_vars

\* one request met a classifier failure and another a failure of the
\* promotion check, both completed and the vector of one of them is stored
C18_Witness ==
    \E r1, r2 \in ReqSlots :
        /\ req[r1].pc = "done" /\ req[r2].pc = "done"
        /\ req[r1].failures = 1 /\ req[r1].checks = 0
        /\ req[r2].failures = 1 /\ req[r2].checks = 1
        /\ req[r1].status = 200 /\ req[r2].status = 200
        /\ traits = req[r2].trait_adjustments
        /\ traits # [trait \in KnownTraits |-> Q(1, 2)]

\* C19: a step of the detection loop changes the learner's catalogue or the
\* shared store, or runs a promotion check, only for an incorrect response
\* for which the classifier returned a misconception with confidence >= 0.6.
C19_ConfidenceFloor ==
    [][\A r \in ReqSlots :
          (/\ DetectStep(r)
           /\ \/ users' # users
              \/ globalKB' # globalKB
              \/ req'[r].checks # req[r].checks
              \/ req'[r].discovered # req[r].discovered)
          => /\ ~req[r].feedback[req[r].idx].is_correct
             /\ req'[r].classified.kind = "misconception"
             /\ req'[r].classified.confidence >= 60]_vars

\* a result at the floor was recorded and checked, after a result just
\* below the floor had left catalogue and store alone
C19_Witness ==
    \E r1, r2 \in ReqSlots :
        /\ req[r1].classified.confidence = 60 /\ req[r1].checks = 1
        /\ Len(users[Learner]["t1"]) = 1
        /\ req[r2].pc = "done" /\ req[r2].classified.confidence = 59
        /\ req[r2].checks = 0 /\ req[r2].discovered = <<>>

\* C20: a submission with topic label T updates the vector of (learner, T)
\* by the update rule from that pair's own previous value (0.5 when unset),
\* and leaves the vectors of the other topics unchanged.
C20_TopicVectorsIndependent ==
    [][\A r \in ReqSlots :
          (PersistStep(r) /\ req[r].user = Learner) =>
              \A t \in Topics :
                  IF \E i \in 1..Len(req[r].topics) : req[r].topics[i] = t
                  THEN LET previous == IF topic_traits[t].present
                                       THEN topic_traits[t].traits
                                       ELSE [trait \in KnownTraits |-> Q(1, 2)]
                       IN topic_traits'[t].traits =
                              Applied(previous, req[r].quiz_data)
                  ELSE topic_traits'[t] = topic_traits[t]]_vars

\* the session request r fetched already held the results of a submission
\* of the same responses
Resubmission(r) ==
    /\ req[r].session.quiz_results.present
    /\ req[r].session.quiz_results.responses = req[r].feedback

\* C21: the responses of a quiz session are consumed once: a submission of
\* responses whose results the session already holds does not change the
\* learner's trait vector and does not increment the frequency of a record
\* of the learner's catalogue.
C21_ResponsesConsumedOnce ==
    [][\A r \in ReqSlots :
          (req[r].user = Learner /\ Resubmission(r)) =>
              /\ PersistStep(r) => traits' = traits
              /\ DetectStep(r) =>
                     \A t \in Topics :
                         \A i \in 1..Len(users[Learner][t]) :
                             users'[Learner][t][i].frequency =
                                 users[Learner][t][i].frequency]_vars

(***************************************************************************)
(* Claims about the shared knowledge base.                                 *)
(***************************************************************************)
\* the records of the knowledge base added for a text in a domain
PromotedFor(text, d) ==
    {i \in 1..Len(globalKB) :
        /\ globalKB[i].document = text
        /\ globalKB[i].subject = d
        /\ globalKB[i].source = "student_discovered"}

\* C15: promotion checks for the same candidate text and domain, also when
\* they run concurrently and both pass the frequency gate, append at most
\* one record for that text to the shared store.
C15_AtMostOnePromotedRecord ==
    \A text \in Texts, d \in Domains : Cardinality(PromotedFor(text, d)) <= 1

\* the record was appended for a candidate that had passed both gates
PassedBothGates(rec) ==
    /\ rec.source = "student_discovered"
    /\ rec.frequency >= 3
    /\ rec.novelty_score > SimOne - 170

SampledResponse == quiz_responses[1]

SampledQuestion == quiz_questions[1]

\* the weight stated for a trait and a reasoning text
StatedWeight(trait, reasoning) ==
    RAdd(RAdd(One,
              IF trait \in {"confidence", "metacognition", "precision"}
              THEN Q(12, 10) ELSE Q(8, 10)),
         IF reasoning.words = 0 THEN Zero
         ELSE IF trait \in {"analytical_depth", "metacognition", "curiosity"}
              THEN Q(15, 10) ELSE Q(5, 10))

\* C23: for every response and trait the evidence sample has a score in
\* [0, 1] and the weight 1.0 + (1.2 for confidence, metacognition and
\* precision, else 0.8) + (nothing without reasoning text, else 1.5 for
\* analytical_depth, metacognition and curiosity, else 0.5); the weight is
\* positive, so the fallback for zero weight is never taken.
C23_EvidenceWeight ==
    updates > 0 =>
        \A i \in 1..Len(evidence_log) :
            LET e == evidence_log[i]
            IN /\ InUnit(e.evidence_score)
               /\ e.evidence_weight =
                      StatedWeight(e.trait, SampledResponse.reasoning)
               /\ RLess(Zero, e.evidence_weight)
               /\ Evidenced(e.trait)

\* a response with reasoning text gave samples of weight 3.7, 3.3, 2.7 and
\* 2.3, one of them with a score strictly inside the interval
C23_Witness ==
    /\ updates > 0
    /\ SampledResponse.reasoning.words > 0
    /\ \E i, j, k, l \in 1..Len(evidence_log) :
           /\ evidence_log[i].trait = "metacognition"
           /\ evidence_log[i].evidence_weight = Q(37, 10)
           /\ evidence_log[j].trait = "curiosity"
           /\ evidence_log[j].evidence_weight = Q(33, 10)
           /\ evidence_log[k].trait = "precision"
           /\ evidence_log[k].evidence_weight = Q(27, 10)
           /\ evidence_log[l].trait = "pattern_recognition"
           /\ evidence_log[l].evidence_weight = Q(23, 10)
           /\ RLess(Zero, evidence_log[l].evidence_score)
           /\ RLess(evidence_log[l].evidence_score, One)

\* the response without its misconception flag
Unflagged(response) ==
    [response EXCEPT !.misconception_addressed = NoMisconception]

\* the normalized score of a log entry before penalty and clamp, from its
\* components
Normalized(e) ==
    LET numerator ==
            RAdd(RAdd(e.components.correctness,
                      RMul(e.components.calibration, CalibrationWeight(e.trait))),
                 IF e.components.reasoning.supplied
                 THEN RMul(e.components.reasoning.score, ReasoningWeight(e.trait))
                 ELSE Zero)
    IN RDiv(numerator, e.evidence_weight)

\* C24: the penalty is applied to a sample if and only if the response is
\* incorrect and the misconception's affected traits contain the trait; it
\* lowers the normalized score before clamping by misconception_confidence *
\* 0.15 and leaves the weight as it is; for a correct response the sample is
\* the same with and without the flag.
C24_MisconceptionPenalty ==
    updates > 0 =>
        \A i \in 1..Len(evidence_log) :
            LET e == evidence_log[i]
                response == SampledResponse
                mc == response.misconception_addressed
                applies == /\ mc.present
                           /\ ~response.is_correct
                           /\ e.trait \in mc.affected_traits
                plain == GatherEvidence(Unflagged(response), e.trait)
            IN /\ e.evidence_score =
                      Clamp01(RSub(Normalized(e),
                                   IF applies THEN RMul(mc.confidence, Q(15, 100))
                                   ELSE Zero))
               /\ e.evidence_weight = plain.weight
               /\ ~applies => e.evidence_score = plain.score
               /\ response.is_correct =>
                      /\ e.evidence_score = plain.score
                      /\ e.components = plain.components

\* an incorrect response with a misconception of confidence 0.7: the sample
\* of an affected trait scores 0.105 less than without the flag, above 0,
\* and the sample of another trait scores as without the flag
C24_Witness ==
    /\ updates > 0
    /\ ~SampledResponse.is_correct
    /\ SampledResponse.misconception_addressed.present
    /\ \E i, j \in 1..Len(evidence_log) :
           /\ evidence_log[i].trait = "analytical_depth"
           /\ RLess(Zero, evidence_log[i].evidence_score)
           /\ evidence_log[i].evidence_score =
                  RSub(GatherEvidence(Unflagged(SampledResponse),
                                      "analytical_depth").score, Q(105, 1000))
           /\ evidence_log[j].trait = "metacognition"
           /\ evidence_log[j].evidence_score =
                  GatherEvidence(Unflagged(SampledResponse), "metacognition").score

\* the trait set stated for a question without tags
StatedInference(question) ==
    LET calc == IF question.requires_calculation
                THEN {"precision", "analytical_depth"} ELSE {}
        hard == IF question.difficulty = "hard"
                THEN {"cognitive_flexibility", "analytical_depth"} ELSE {}
        misc == IF question.misconception_target
                THEN {"pattern_recognition"} ELSE {}
    IN IF ~question.requires_calculation /\ question.difficulty # "hard"
          /\ ~question.misconception_target
       THEN {"analytical_depth", "precision"}
       ELSE calc \cup hard \cup misc

\* the traits of the evidence log, in its order
LoggedTraits == [i \in 1..Len(evidence_log) |-> evidence_log[i].trait]

\* C25: a question without tags gives evidence for the union of {precision,
\* analytical_depth} if it requires calculation, {cognitive_flexibility,
\* analytical_depth} if it is hard and {pattern_recognition} if it targets a
\* misconception, for {analytical_depth, precision} when none of the three
\* holds, and for each of these traits once; a question with tags gives
\* evidence for its tags and nothing is inferred.
C25_InferredTraits ==
    updates > 0 =>
        IF SampledQuestion.traits_targeted = <<>>
        THEN LET stated == StatedInference(SampledQuestion)
             IN /\ {LoggedTraits[i] : i \in 1..Len(evidence_log)} = stated
                /\ Len(evidence_log) = Cardinality(stated)
                /\ \A trait \in TraitKeys :
                       IF trait \in stated
                       THEN diagnostics[trait].evidence_count = 1
                       ELSE diagnostics[trait].method = "no_evidence"
        ELSE LoggedTraits = SampledQuestion.traits_targeted

\* a hard question without tags that requires calculation and targets a
\* misconception gave one sample to each of four traits, and analytical_depth
\* was counted once
C25_Witness ==
    /\ updates > 0
    /\ SampledQuestion.traits_targeted = <<>>
    /\ SampledQuestion.requires_calculation
    /\ SampledQuestion.difficulty = "hard"
    /\ SampledQuestion.misconception_target
    /\ Len(evidence_log) = 4
    /\ diagnostics["analytical_depth"].evidence_count = 1
    /\ Evidenced("pattern_recognition")
    /\ ~Evidenced("curiosity")

\* the responses whose question number some question of the session carries
Matched(responses) ==
    LET HasQuestion(response) ==
            \E i \in 1..Len(Questions) :
                Questions[i].question_number = response.question_number
    IN SelectSeq(responses, HasQuestion)

\* C26: update_traits skips a response whose question number no question
\* carries and goes on with the others: vector, diagnostics and evidence log
\* are those of the call without that response.
C26_UnmatchedResponseSkipped ==
    updates > 0 =>
        LET kept == Matched(quiz_responses)
            before == [trait \in TraitKeys |-> diagnostics[trait].old_value]
        IN /\ diagnostics = UpdateTraits(before, kept, Questions)
           /\ traits = UpdatedTraits(diagnostics)
           /\ evidence_log = EvidenceLog(kept, Questions, TraitKeys, Len(kept))

\* a call whose first response had no question took its evidence from the
\* second response alone
C26_Witness ==
    /\ updates > 0
    /\ Len(quiz_responses) = 2
    /\ Matched(quiz_responses) = <<quiz_responses[2]>>
    /\ Evidenced("curiosity")
    /\ Len(evidence_log) = 3
    /\ \A i \in 1..Len(evidence_log) :
           evidence_log[i].question_number = quiz_responses[2].question_number

(***************************************************************************)
(* Claims about the learner's catalogue.                                   *)
(***************************************************************************)
\* C22: every record of a catalogue has frequency >= 1 and correct_streak
\* >= 0, and no step of a detection or of a correct or incorrect answer
\* removes a record or lowers a record's frequency.
C22_CatalogueOnlyGrows ==
    /\ [](\A u \in Users, t \in Topics :
             \A i \in 1..Len(users[u][t]) :
                 /\ users[u][t][i].frequency >= 1
                 /\ users[u][t][i].correct_streak >= 0)
    /\ [][\A u \in Users, t \in Topics :
             /\ Len(users'[u][t]) >= Len(users[u][t])
             /\ \A i \in 1..Len(users[u][t]) :
                    /\ users'[u][t][i].misconception_id =
                           users[u][t][i].misconception_id
                    /\ users'[u][t][i].misconception_text =
                           users[u][t][i].misconception_text
                    /\ users'[u][t][i].frequency >= users[u][t][i].frequency
         ]_vars

\* a record detected twice has received a correct answer since, and a second
\* record has joined it in the catalogue
C22_Witness ==
    /\ Len(users[Learner]["t1"]) = 2
    /\ users[Learner]["t1"][1].frequency = 2
    /\ users[Learner]["t1"][1].correct_streak = 1
    /\ users[Learner]["t1"][2].frequency = 1

\* C27: in every state, also of interleaved correct answers, incorrect
\* answers and re-detections on one record, a record with resolved = true
\* has correct_streak >= 3.
C27_ResolvedImpliesStreak ==
    \A u \in Users, t \in Topics :
        \A i \in 1..Len(users[u][t]) :
            users[u][t][i].resolved => users[u][t][i].correct_streak >= 3

\* C28: the catalogue of a learner and topic holds at most one record per
\* misconception text, compared case-insensitively, also after two
\* concurrent detections of the same new text.
C28_OneRecordPerText ==
    \A u \in Users, t \in Topics :
        \A i, j \in 1..Len(users[u][t]) :
            Lower(users[u][t][i].misconception_text) =
                Lower(users[u][t][j].misconception_text) => i = j

\* the persisted fields of two records are equal
SamePersisted(a, b) ==
    /\ a.misconception_id = b.misconception_id
    /\ a.misconception_text = b.misconception_text
    /\ a.frequency = b.frequency
    /\ a.last_occurrence = b.last_occurrence
    /\ a.resolved = b.resolved
    /\ a.resolution_date = b.resolution_date
    /\ a.correct_streak = b.correct_streak

\* C29: the PersonalMisconception a detection returns equals the record the
\* call persisted: the pushed record for a new text, and for a re-detection
\* the record with the incremented frequency, resolved = false and
\* correct_streak = 0.
C29_ReturnedEqualsPersisted ==
    [][\A p \in Procs :
          (pc[p] \in {"store_push", "store_update"} /\ pc'[p] = "idle") =>
              /\ ret'.op = "store" /\ ~ret'.raised
              /\ \E i \in 1..Len(users'[ret'.user][ret'.topic]) :
                     SamePersisted(users'[ret'.user][ret'.topic][i], ret'.mc)
              /\ pc[p] = "store_update" =>
                     /\ ret'.mc.frequency = loc[p].existing.frequency + 1
                     /\ ~ret'.mc.resolved
                     /\ ret'.mc.correct_streak = 0
      ]_vars

\* C30: a correct answer tied to a record that is already Resolved leaves
\* its correct_streak and its resolution timestamp as they were, and the
\* call does not report a resolution.
C30_ResolvedRecordLeftAlone ==
    [][\A p \in Procs :
          /\ (pc[p] = "idle" /\ pc'[p] = "res_resolve") =>
                LET l == loc'[p]
                    i == PositionalIndex(users[l.user][l.topic], l.id)
                IN users[l.user][l.topic][i].resolved =>
                       users'[l.user][l.topic][i] = users[l.user][l.topic][i]
          /\ (pc[p] = "res_resolve" /\ pc'[p] = "idle") =>
                LET l == loc[p]
                    i == PositionalIndex(users[l.user][l.topic], l.id)
                IN users[l.user][l.topic][i].resolved =>
                       /\ users'[l.user][l.topic][i].resolution_date =
                              users[l.user][l.topic][i].resolution_date
                       /\ ~ret'.result
      ]_vars

====
